---- MODULE Spec2Model ----
(***************************************************************************)
(* The streaming reframing pipeline of the 1min AI gateway                 *)
(* (src/src/index.js): handleChatStreaming reads the provider's byte       *)
(* stream chunk by chunk, reassembles newline-delimited records, decodes   *)
(* each event and enqueues one chat chunk per event on the ReadableStream  *)
(* it returns, then a terminal chunk with the usage and the sentinel.      *)
(*                                                                         *)
(* Text is modelled character by character.  A byte is a one-character     *)
(* string for an ASCII byte, and "xC3" / "xA9" for the two bytes of the    *)
(* UTF-8 encoding of U+00E9.  A decoded character is the same one-         *)
(* character string, "U+00E9", or "U+FFFD" (the replacement character).    *)
(***************************************************************************)
EXTENDS Integers, Sequences, FiniteSets, TLC

(***************************************************************************)
(* Bounds of the model.                                                    *)
(***************************************************************************)
MaxRecords == 2
MaxPrompt == 1
MaxChoices == 2
MaxSwitches == 2

(***************************************************************************)
(* Text helpers.                                                           *)
(***************************************************************************)
Idx(s) == [i \in 1..Len(s) |-> i]

Q == "\""
NL == "\n"

LeadBytes == {"xC3"}
ContBytes == {"xA9"}
Replacement == "U+FFFD"

\* The character a well-formed two-byte sequence decodes to.
TwoByteChar(lead, cont) == "U+00E9"

\* new TextDecoder().decode(value), called without {stream: true}: every
\* call decodes its chunk on its own, so a sequence cut by the chunk's end
\* (a lead byte last, or a continuation byte first) decodes to U+FFFD.
Decode(bytes) ==
    LET n == Len(bytes)
        consumed(i) == i > 1 /\ bytes[i] \in ContBytes /\ bytes[i-1] \in LeadBytes
        starts == SelectSeq(Idx(bytes), LAMBDA i : ~consumed(i))
        char(i) == IF bytes[i] \in LeadBytes
                   THEN IF i < n /\ bytes[i+1] \in ContBytes
                        THEN TwoByteChar(bytes[i], bytes[i+1])
                        ELSE Replacement
                   ELSE IF bytes[i] \in ContBytes THEN Replacement
                   ELSE bytes[i]
    IN [k \in 1..Len(starts) |-> char(starts[k])]

\* s.split('\n'): the segments between the newlines, the last one being
\* what follows the last newline (empty when s ends with a newline).
Split(s) ==
    LET nl == SelectSeq(Idx(s), LAMBDA i : s[i] = NL)
        from(k) == IF k = 1 THEN 1 ELSE nl[k-1] + 1
        to(k) == IF k = Len(nl) + 1 THEN Len(s) ELSE nl[k] - 1
    IN [k \in 1..(Len(nl) + 1) |-> SubSeq(s, from(k), to(k))]

\* lines.pop() || '' and what is left in lines.
Last(parts) == parts[Len(parts)]
Front(parts) == SubSeq(parts, 1, Len(parts) - 1)

PREFIX == <<"d", "a", "t", "a", ":", " ">>
DONE == <<"[", "D", "O", "N", "E", "]">>

\* line.startsWith('data: ')
StartsWith(line, p) == Len(line) >= Len(p) /\ SubSeq(line, 1, Len(p)) = p

\* line.slice(6)
Slice(line, k) == SubSeq(line, k + 1, Len(line))

WhiteSpace == {" ", "\t", "\r", NL}

\* String.prototype.trim
Trim(s) ==
    LET n == Len(s)
    IN IF \A i \in 1..n : s[i] \in WhiteSpace THEN <<>>
       ELSE SubSeq(s, CHOOSE i \in 1..n : /\ s[i] \notin WhiteSpace
                                          /\ \A j \in 1..(i-1) : s[j] \in WhiteSpace,
                      CHOOSE i \in 1..n : /\ s[i] \notin WhiteSpace
                                          /\ \A j \in (i+1)..n : s[j] \in WhiteSpace)

(***************************************************************************)
(* JSON.parse, for the payloads the upstream of this model sends: an       *)
(* object whose members are strings, with no escape sequence.  Every other *)
(* text of the model ({x}, [DONE], two payloads run together) is not JSON. *)
(* A parsed object is the sequence of its <<key, value>> members.          *)
(***************************************************************************)
JSONparse(s) ==
    LET n == Len(s)
        qs == SelectSeq(Idx(s), LAMBDA i : s[i] = Q)
        m == Len(qs) \div 4
        gap(a, b) == Trim(SubSeq(s, a + 1, b - 1))
        member(j) == <<SubSeq(s, qs[4*j-3] + 1, qs[4*j-2] - 1),
                       SubSeq(s, qs[4*j-1] + 1, qs[4*j] - 1)>>
        wellFormed ==
            /\ n >= 2 /\ s[1] = "{" /\ s[n] = "}"
            /\ Len(qs) % 4 = 0
            /\ IF m = 0 THEN gap(1, n) = <<>>
               ELSE /\ gap(1, qs[1]) = <<>>
                    /\ gap(qs[4*m], n) = <<>>
                    /\ \A j \in 1..m : gap(qs[4*j-2], qs[4*j-1]) = <<":">>
                    /\ \A j \in 1..(m-1) : gap(qs[4*j], qs[4*j+1]) = <<",">>
    IN IF wellFormed THEN [ok |-> TRUE, obj |-> [j \in 1..m |-> member(j)]]
       ELSE [ok |-> FALSE, obj |-> <<>>]

\* obj[key]: the value of the last member of that name, or undefined.
Field(obj, key) ==
    LET at == {j \in 1..Len(obj) : obj[j][1] = key}
    IN IF at = {} THEN [def |-> FALSE, val |-> <<>>]
       ELSE [def |-> TRUE, val |-> obj[CHOOSE j \in at : \A k \in at : j >= k][2]]

\* a || b on strings and undefined: a unless it is undefined or ''.
Truthy(f) == f.def /\ f.val # <<>>

KeyResponse == <<"r", "e", "s", "p", "o", "n", "s", "e">>
KeyText == <<"t", "e", "x", "t">>
KeyModel == <<"m", "o", "d", "e", "l">>
DefaultModel == <<"g", "p", "t", "-", "3", ".", "5", "-", "t", "u", "r", "b", "o">>

ContentOfFirstPresent(obj) ==
    IF Field(obj, KeyResponse).def THEN Field(obj, KeyResponse).val
    ELSE IF Field(obj, KeyText).def THEN Field(obj, KeyText).val
    ELSE <<>>

\* parsed.response || parsed.text || ''
ContentOf(obj) ==
    IF Truthy(Field(obj, KeyResponse)) THEN Field(obj, KeyResponse).val
    ELSE IF Truthy(Field(obj, KeyText)) THEN Field(obj, KeyText).val
    ELSE <<>>

(***************************************************************************)
(* The token estimator and the usage object (src/tokens.js).  The          *)
(* estimator is a pure function of the accumulated text, not additive over *)
(* fragments: one token per four characters, rounded up.                   *)
(***************************************************************************)
calculateCompletionTokens(text) == (Len(text) + 3) \div 4

NoUsage == [def |-> FALSE, prompt_tokens |-> 0, completion_tokens |-> 0,
            total_tokens |-> 0]

createUsageObject(prompt, completion) ==
    [def |-> TRUE, prompt_tokens |-> prompt, completion_tokens |-> completion,
     total_tokens |-> prompt + completion]

(***************************************************************************)
(* The records the pipeline enqueues.  A record stands for the bytes       *)
(* `data: ${JSON.stringify(object)}\n\n` (or `data: [DONE]\n\n`); the id   *)
(* and created fields, read from the clock, are left out.  delta.def says  *)
(* whether delta has a content field.                                      *)
(***************************************************************************)
NoDelta == [def |-> FALSE, content |-> <<>>]

transformStreamChunkResponseOnly(chunk) ==
    [object |-> "chat.completion.chunk",
     model |-> IF Truthy(Field(chunk, KeyModel)) THEN Field(chunk, KeyModel).val
               ELSE DefaultModel,
     delta |-> [def |-> TRUE,
                content |-> IF Truthy(Field(chunk, KeyResponse))
                            THEN Field(chunk, KeyResponse).val ELSE <<>>],
     finish_reason |-> "null",
     usage |-> NoUsage]

\* transformStreamChunk(chunk)
transformStreamChunk(chunk) ==
    [object |-> "chat.completion.chunk",
     model |-> IF Truthy(Field(chunk, KeyModel)) THEN Field(chunk, KeyModel).val
               ELSE DefaultModel,
     delta |-> [def |-> TRUE, content |-> ContentOf(chunk)],
     finish_reason |-> "null",
     usage |-> NoUsage]

FinalChunkSwapped(prompt, completion) ==
    [object |-> "chat.completion.chunk",
     model |-> DefaultModel,
     delta |-> NoDelta,
     finish_reason |-> "stop",
     usage |-> createUsageObject(completion, prompt)]

\* finalChunk of the done branch
FinalChunk(prompt, completion) ==
    [object |-> "chat.completion.chunk",
     model |-> DefaultModel,
     delta |-> NoDelta,
     finish_reason |-> "stop",
     usage |-> createUsageObject(prompt, completion)]

\* 'data: [DONE]\n\n'
Sentinel ==
    [object |-> "[DONE]", model |-> <<>>, delta |-> NoDelta,
     finish_reason |-> "null", usage |-> NoUsage]

DoneRecordsSentinelOnly(prompt, completion) == <<Sentinel>>

\* What the done branch enqueues, in order.
DoneRecords(prompt, completion) == <<FinalChunk(prompt, completion), Sentinel>>

(***************************************************************************)
(* The body of the for loop over the complete lines of one read.  st is    *)
(* the closure state the loop works on:                                    *)
(*   text, tokens   completeResponse and totalCompletionTokens             *)
(*   recs           the records enqueued by this read, in order            *)
(*   evs            the events decoded by this read (content, estimate)    *)
(*   failed         console.error calls of the inner catch                 *)
(* open says whether controller.enqueue can succeed (the stream is         *)
(* readable and close was not requested); otherwise it throws a TypeError, *)
(* which the inner catch swallows like a parse failure.                    *)
(***************************************************************************)

\* data === '[DONE]' || data === ''
IsIgnored(data) == data = DONE \/ data = <<>>

OnIgnoredForwarded(st, data, open) ==
    IF data = DONE /\ open THEN [st EXCEPT !.recs = Append(@, Sentinel)] ELSE st

\* if (data === '[DONE]' || data === '') continue
OnIgnored(st, data, open) == st

AccumulateOverwrite(text, content) == content

\* completeResponse += content
Accumulate(text, content) == text \o content

OnParseFailureEmit(st) ==
    [st EXCEPT !.failed = @ + 1, !.recs = Append(@, transformStreamChunk(<<>>))]

\* catch (e) { console.error('Failed to parse stream chunk:', ...) }
OnParseFailure(st) == [st EXCEPT !.failed = @ + 1]

OnEventPerFragment(st, obj, open) ==
    LET content == ContentOf(obj)
        text == IF content # <<>> THEN Accumulate(st.text, content) ELSE st.text
        tokens == IF content # <<>>
                  THEN st.tokens + calculateCompletionTokens(content)
                  ELSE st.tokens
        acc == [st EXCEPT !.text = text, !.tokens = tokens,
                          !.evs = Append(@, [content |-> content, tokens |-> tokens])]
    IN IF open THEN [acc EXCEPT !.recs = Append(@, transformStreamChunk(obj))]
       ELSE [acc EXCEPT !.failed = @ + 1]

\* The try block, JSON.parse having succeeded with obj.
OnEvent(st, obj, open) ==
    LET content == ContentOf(obj)
        text == IF content # <<>> THEN Accumulate(st.text, content) ELSE st.text
        tokens == IF content # <<>> THEN calculateCompletionTokens(text)
                  ELSE st.tokens
        acc == [st EXCEPT !.text = text, !.tokens = tokens,
                          !.evs = Append(@, [content |-> content, tokens |-> tokens])]
    IN IF open THEN [acc EXCEPT !.recs = Append(@, transformStreamChunk(obj))]
       ELSE [acc EXCEPT !.failed = @ + 1]

HandleLineAnyPrefix(st, line, open) ==
    LET data == Trim(Slice(line, Len(PREFIX)))
    IN IF IsIgnored(data) THEN OnIgnored(st, data, open)
       ELSE LET parsed == JSONparse(data)
            IN IF parsed.ok THEN OnEvent(st, parsed.obj, open)
               ELSE OnParseFailure(st)

\* The body of for (const line of lines).
HandleLine(st, line, open) ==
    IF ~StartsWith(line, PREFIX) THEN st
    ELSE LET data == Trim(Slice(line, Len(PREFIX)))
         IN IF IsIgnored(data) THEN OnIgnored(st, data, open)
            ELSE LET parsed == JSONparse(data)
                 IN IF parsed.ok THEN OnEvent(st, parsed.obj, open)
                    ELSE OnParseFailure(st)

RECURSIVE ProcessLines(_, _, _)
ProcessLines(st, lines, open) ==
    IF lines = <<>> THEN st
    ELSE ProcessLines(HandleLine(st, Head(lines), open), Tail(lines), open)

(***************************************************************************)
(* The upstream bodies of the model: up to MaxRecords pieces, each one of  *)
(* the records below.                                                      *)
(***************************************************************************)
Obj(key, value) == <<"{", Q>> \o key \o <<Q, ":", Q>> \o value \o <<Q, "}">>

RecResponse == PREFIX \o Obj(KeyResponse, <<"H", "e", "l", "l", "o">>) \o <<NL>>
RecText == PREFIX \o Obj(KeyText, <<"xC3", "xA9">>) \o <<NL>>
RecNoField == PREFIX \o <<"{", "}">> \o <<NL>>
RecMalformed == PREFIX \o <<"{", "x", "}">> \o <<NL>>
RecSentinel == PREFIX \o DONE \o <<NL>>
RecBlank == <<NL>>
RecTail == PREFIX \o Obj(KeyText, <<"Z">>)

Pieces == {RecResponse, RecText, RecNoField, RecMalformed, RecSentinel,
           RecBlank, RecTail}

RECURSIVE Flatten(_)
Flatten(ss) == IF ss = <<>> THEN <<>> ELSE Head(ss) \o Flatten(Tail(ss))

Bodies == {Flatten(f) : f \in UNION {[1..k -> Pieces] : k \in 0..MaxRecords}}

(***************************************************************************)
(* State.                                                                  *)
(***************************************************************************)
VARIABLES
    upstream,               \* the bytes of the provider's response body
    pos,                    \* how many of them the reader has delivered
    upState,                \* "open", "ended" or "failed"
    pc,                     \* start(): "idle" (not called), "read" (awaiting
                            \* reader.read()), "returned" or "rejected"
    promptTokens,
    totalCompletionTokens,
    completeResponse,
    buffer,
    state,                  \* of the returned stream: "readable", "closed", "errored"
    closeRequested,
    queue,                  \* records enqueued and not yet read by the consumer
    out,                    \* every record enqueued so far
    events,                 \* every event decoded so far
    failures,               \* exceptions caught and logged by the pipeline
    received,               \* records the consumer has read
    cancelled,              \* the consumer has cancelled the stream
    heard,                  \* the text decoded so far
    handed,                 \* the lines the line loop has gone over so far
    controllerCalls         \* the calls of controller.error and of
                            \* controller.close so far, in order

\* The line loop on its own: the lines of one read and the closure state
\* before and after the loop has gone over them.
VARIABLES
    parserLines,
    parserOpen,             \* whether controller.enqueue can succeed
    parserBefore,
    parserAfter,
    parserDone

\* transformChatChunkToResponsesChunk on its own: the chat chunk it is given
\* and the object it returns.
VARIABLES
    chatChunk,
    responsesChunk,
    chunkDone

\* handleResponses: the request, what the provider answers, where the
\* handler is, and what it returns.
VARIABLES
    request,
    fetched,
    respPc,                 \* "auth", "body", "chat", "branch" or "done"
    chatBody,
    chatResponse,
    respResult,
    respCalls               \* calls of transformChatToResponses and of
                            \* handleResponsesStreaming

\* handleResponsesStreaming, the second stage.
VARIABLES
    sent2,                  \* the records the first stage enqueues on
                            \* chatResponse.body
    wire2,                  \* their bytes
    pos2,                   \* how many of them the reader has delivered
    upState2,               \* "open", "ended" or "failed"
    pc2,                    \* start(): "idle" (not called), "read",
                            \* "returned" or "rejected"
    buffer2,
    state2,                 \* of the returned stream
    closeRequested2,
    out2,                   \* every record enqueued so far
    failures2,              \* exceptions caught and logged
    heard2,                 \* the text decoded so far
    handed2,                \* the lines the line loop has gone over so far
    controllerCalls2        \* the calls of controller.error and of
                            \* controller.close so far, in order

\* Two requests to the chat endpoint in flight at once.
VARIABLES
    pair,                   \* pair[i]: the streams and closure variables of
                            \* request i
    last,                   \* the request whose read resolved last (0: none)
    switches                \* how often that has changed, up to MaxSwitches

stage1Vars == <<upstream, pos, upState, pc, promptTokens, totalCompletionTokens,
                completeResponse, buffer, state, closeRequested, queue, out,
                events, failures, received, cancelled, heard, handed,
                controllerCalls>>
parserVars == <<parserLines, parserOpen, parserBefore, parserAfter, parserDone>>
chunkVars == <<chatChunk, responsesChunk, chunkDone>>

respVars == <<request, fetched, respPc, chatBody, chatResponse, respResult,
              respCalls>>

stage2Vars == <<sent2, wire2, pos2, upState2, pc2, buffer2, state2,
                closeRequested2, out2, failures2, heard2, handed2,
                controllerCalls2>>

pairVars == <<pair, last, switches>>

vars == <<stage1Vars, parserVars, chunkVars, respVars, stage2Vars, pairVars>>

upVars == <<upstream, pos, upState>>
closureVars == <<promptTokens, totalCompletionTokens, completeResponse, buffer>>
consumerVars == <<received, cancelled>>
framingVars == <<heard, handed>>

besideResponses == <<stage1Vars, parserVars, chunkVars, stage2Vars, pairVars>>
besideStage2 == <<stage1Vars, parserVars, chunkVars, respVars, pairVars>>
besidePair == <<stage1Vars, parserVars, chunkVars, respVars, stage2Vars>>

\* What a request to the chat endpoint leaves alone.
besideStage1 == <<parserVars, chunkVars, respVars, stage2Vars, pairVars>>

\* ReadableStreamDefaultControllerCanCloseOrEnqueue
CanCloseOrEnqueue == state = "readable" /\ ~closeRequested

TypeInit ==
    /\ upstream \in Bodies
    /\ promptTokens \in {0, MaxPrompt}
    /\ pos = 0 /\ upState = "open"
    /\ pc = "read"
    /\ totalCompletionTokens = 0 /\ completeResponse = <<>> /\ buffer = <<>>
    /\ state = "readable" /\ closeRequested = FALSE /\ queue = <<>>
    /\ out = <<>> /\ events = <<>> /\ failures = 0
    /\ received = 0 /\ cancelled = FALSE
    /\ heard = <<>> /\ handed = <<>> /\ controllerCalls = <<>>

\* No request to the chat endpoint is in flight.
Stage1Idle ==
    /\ upstream = <<>> /\ promptTokens = 0
    /\ pos = 0 /\ upState = "open"
    /\ pc = "idle"
    /\ totalCompletionTokens = 0 /\ completeResponse = <<>> /\ buffer = <<>>
    /\ state = "readable" /\ closeRequested = FALSE /\ queue = <<>>
    /\ out = <<>> /\ events = <<>> /\ failures = 0
    /\ received = 0 /\ cancelled = FALSE
    /\ heard = <<>> /\ handed = <<>> /\ controllerCalls = <<>>

\* let totalCompletionTokens = 0; let completeResponse = ''
NewClosure == [text |-> <<>>, tokens |-> 0, recs |-> <<>>, evs |-> <<>>,
               failed |-> 0]

ParserIdle ==
    /\ parserLines = <<>> /\ parserOpen = TRUE
    /\ parserBefore = NewClosure /\ parserAfter = NewClosure
    /\ parserDone = FALSE

NoChunk == [id |-> <<>>, object |-> "", created |-> "", model |-> <<>>,
            output |-> <<>>, usage |-> NoUsage]

ChunkIdle ==
    /\ chatChunk = [id |-> <<>>, created |-> "", model |-> <<>>,
                    choices |-> <<>>, usage |-> NoUsage]
    /\ responsesChunk = NoChunk
    /\ chunkDone = FALSE

\* A Response object: ok, what its body is ("none" for no response yet,
\* "error", "chat.completion", "chat.stream", "response" or
\* "response.stream"), and the body as JSON.parse reads it.
NoChat == [id |-> <<>>, object |-> "", created |-> "", model |-> <<>>,
           choices |-> <<>>, usage |-> NoUsage]
NoResponses == [id |-> <<>>, object |-> "", created |-> "", model |-> <<>>,
                status |-> "", output |-> <<>>, usage |-> NoUsage]
NoResponse == [ok |-> FALSE, kind |-> "none", error |-> "", chat |-> NoChat,
               responses |-> NoResponses]
NoChatBody == [messages |-> 0, modelValid |-> FALSE, stream |-> FALSE]
NoCalls == [toResponses |-> 0, streaming |-> 0]

RespIdle ==
    /\ request = [auth |-> FALSE, json |-> FALSE, stream |-> FALSE,
                  instructions |-> FALSE, input |-> 0, modelValid |-> FALSE]
    /\ fetched = [outcome |-> "throws", text |-> <<>>, prompt |-> 0]
    /\ respPc = "auth"
    /\ chatBody = NoChatBody
    /\ chatResponse = NoResponse
    /\ respResult = NoResponse
    /\ respCalls = NoCalls

Stage2Idle ==
    /\ sent2 = <<>> /\ wire2 = <<>> /\ pos2 = 0 /\ upState2 = "open"
    /\ pc2 = "idle" /\ buffer2 = <<>>
    /\ state2 = "readable" /\ closeRequested2 = FALSE
    /\ out2 = <<>> /\ failures2 = 0
    /\ heard2 = <<>> /\ handed2 = <<>> /\ controllerCalls2 = <<>>

PairIdle == pair = <<>> /\ last = 0 /\ switches = 0

Init ==
    /\ TypeInit
    /\ ParserIdle /\ ChunkIdle /\ RespIdle /\ Stage2Idle /\ PairIdle

(***************************************************************************)
(* reader.read() resolves with {done: false, value}: the next n bytes.     *)
(***************************************************************************)
OnChunkNoCarry(value) ==
    LET lines == Split(Decode(value))
        st0 == [text |-> completeResponse, tokens |-> totalCompletionTokens,
                recs |-> <<>>, evs |-> <<>>, failed |-> 0]
    IN [buffer |-> Last(lines),
        lines |-> Front(lines),
        st |-> ProcessLines(st0, Front(lines), CanCloseOrEnqueue)]

\* What one read resolution computes from the chunk it got.
OnChunk(value) ==
    LET lines == Split(buffer \o Decode(value))
        st0 == [text |-> completeResponse, tokens |-> totalCompletionTokens,
                recs |-> <<>>, evs |-> <<>>, failed |-> 0]
    IN [buffer |-> Last(lines),
        lines |-> Front(lines),
        st |-> ProcessLines(st0, Front(lines), CanCloseOrEnqueue)]

ReadChunk(n) ==
    /\ pc = "read" /\ upState = "open"
    /\ \E r \in {OnChunk(SubSeq(upstream, pos + 1, pos + n))} :
          /\ buffer' = r.buffer
          /\ completeResponse' = r.st.text
          /\ totalCompletionTokens' = r.st.tokens
          /\ queue' = queue \o r.st.recs
          /\ out' = out \o r.st.recs
          /\ events' = events \o r.st.evs
          /\ failures' = failures + r.st.failed
          /\ handed' = handed \o r.lines
    /\ heard' = heard \o Decode(SubSeq(upstream, pos + 1, pos + n))
    /\ pos' = pos + n
    /\ UNCHANGED <<upstream, upState, pc, promptTokens, state, closeRequested,
                   consumerVars, controllerCalls>>
    /\ UNCHANGED besideStage1

(***************************************************************************)
(* controller.error(e) and controller.close() as the stream standard       *)
(* defines them for the state the stream is in.                            *)
(***************************************************************************)
\* reader.read() resolves with {done: true}.
ReadDone ==
    /\ pc = "read" /\ upState = "open"
    /\ pos = Len(upstream)
    /\ upState' = "ended"
    /\ IF CanCloseOrEnqueue
       THEN LET recs == DoneRecords(promptTokens, totalCompletionTokens)
            IN /\ queue' = queue \o recs
               /\ out' = out \o recs
               /\ closeRequested' = TRUE
               /\ state' = IF queue' = <<>> THEN "closed" ELSE state
               /\ pc' = "returned"
               /\ failures' = failures
               /\ controllerCalls' = Append(controllerCalls, "close")
       ELSE \* enqueue throws; the outer catch calls controller.error, which
            \* does nothing on a stream that is not readable; close throws.
            /\ pc' = "rejected"
            /\ failures' = failures + 2
            /\ controllerCalls' = controllerCalls \o <<"error", "close">>
            /\ UNCHANGED <<queue, out, closeRequested, state>>
    /\ UNCHANGED <<upstream, pos, closureVars, events, consumerVars,
                   framingVars>>
    /\ UNCHANGED besideStage1

OnReadFaultLogged ==
    /\ closeRequested' = TRUE
    /\ state' = IF queue = <<>> THEN "closed" ELSE state
    /\ pc' = "returned"
    /\ failures' = failures + 1
    /\ UNCHANGED <<queue, out>>

\* What the outer catch and the controller.close() after it do when
\* reader.read() rejects.
OnReadFault ==
    /\ IF state = "readable"
       THEN /\ state' = "errored" /\ queue' = <<>>
       ELSE UNCHANGED <<state, queue>>
    /\ pc' = "rejected"
    /\ failures' = failures + 2
    /\ UNCHANGED <<closeRequested, out>>

\* reader.read() rejects.
ReadFault ==
    /\ pc = "read" /\ upState = "open"
    /\ upState' = "failed"
    /\ OnReadFault
    /\ controllerCalls' = controllerCalls \o <<"error", "close">>
    /\ UNCHANGED <<upstream, pos, closureVars, events, consumerVars,
                   framingVars>>
    /\ UNCHANGED besideStage1

(***************************************************************************)
(* The consumer of the returned stream.                                    *)
(***************************************************************************)
ConsumerRead ==
    /\ ~cancelled /\ state = "readable" /\ queue # <<>>
    /\ queue' = Tail(queue)
    /\ received' = received + 1
    /\ state' = IF closeRequested /\ queue' = <<>> THEN "closed" ELSE state
    /\ UNCHANGED <<upVars, pc, closureVars, framingVars, closeRequested, out,
                   events, failures, cancelled, controllerCalls>>
    /\ UNCHANGED besideStage1

\* The underlying source passed to new ReadableStream has no cancel method.
ConsumerCancel ==
    /\ ~cancelled /\ state = "readable"
    /\ cancelled' = TRUE
    /\ state' = "closed"
    /\ queue' = <<>>
    /\ UNCHANGED <<upVars, pc, closureVars, framingVars, closeRequested, out,
                   events, failures, received, controllerCalls>>
    /\ UNCHANGED besideStage1

\* The reader delivers the body in chunks of any size.
Read == \E n \in 1..(Len(upstream) - pos) : ReadChunk(n)

Next ==
    \/ Read
    \/ ReadDone
    \/ ReadFault

Spec == Init /\ [][Next]_vars

NextConsumer == Next \/ ConsumerRead \/ ConsumerCancel

SpecConsumer == Init /\ [][NextConsumer]_vars

(***************************************************************************)
(* The line loop as a function: the lines of one read are drawn from the   *)
(* lines below, the closure state from two accumulator values, and the     *)
(* loop is applied to them.                                                *)
(***************************************************************************)
Obj2(k1, v1, k2, v2) ==
    <<"{", Q>> \o k1 \o <<Q, ":", Q>> \o v1 \o <<Q, ",", Q>> \o k2
        \o <<Q, ":", Q>> \o v2 \o <<Q, "}">>

LineText == PREFIX \o Obj(KeyText, <<"Z">>)
LineEmptyResponseAndText == PREFIX \o Obj2(KeyResponse, <<>>, KeyText, <<"Z">>)
LinePaddedSentinel == PREFIX \o <<" ">> \o DONE \o <<" ", "\r">>

ParserLines ==
    {LineText, LineEmptyResponseAndText, LinePaddedSentinel,
     PREFIX \o Obj(KeyResponse, <<"H", "e", "l", "l", "o">>),
     PREFIX \o Obj2(KeyResponse, <<"H", "i">>, KeyText, <<"Z">>),
     PREFIX \o Obj2(KeyText, <<"Z">>, KeyResponse, <<"H", "i">>),
     PREFIX \o Obj(KeyResponse, <<>>),
     PREFIX \o <<"{", "}">>,                       \* no content field
     PREFIX \o <<"{", "x", "}">>,                  \* not JSON
     PREFIX \o DONE,                              \* the sentinel
     PREFIX \o <<" ", "\r">>,                     \* no payload
     <<>>,                                        \* a blank line
     <<"e", "v", "e", "n", "t", ":">> \o Obj(KeyText, <<"Z">>),
     <<"d", "a", "t", "a", ":">> \o Obj(KeyText, <<"Z">>)}

\* completeResponse and totalCompletionTokens after an earlier read.
SomeClosure == [NewClosure EXCEPT !.text = <<"H", "i">>,
                                  !.tokens = calculateCompletionTokens(<<"H", "i">>)]

InitParser ==
    /\ Stage1Idle /\ ChunkIdle /\ RespIdle /\ Stage2Idle /\ PairIdle
    /\ parserLines \in UNION {[1..k -> ParserLines] : k \in 0..MaxRecords}
    /\ parserOpen \in BOOLEAN
    /\ parserBefore \in {NewClosure, SomeClosure}
    /\ parserAfter = parserBefore
    /\ parserDone = FALSE

\* for (const line of lines) { ... }
RunLineLoop ==
    /\ ~parserDone
    /\ parserAfter' = ProcessLines(parserBefore, parserLines, parserOpen)
    /\ parserDone' = TRUE
    /\ UNCHANGED <<parserLines, parserOpen, parserBefore, stage1Vars, chunkVars,
                   respVars, stage2Vars, pairVars>>

NextParser == RunLineLoop

SpecParser == InitParser /\ [][NextParser]_vars

(***************************************************************************)
(* The second stage's chunk transformation.  A chat chunk, as JSON.parse   *)
(* returns it, has an id (a sequence of text units, 'chatcmpl-' being      *)
(* one), created, model, choices and usage.  A choice has an index, a      *)
(* delta (obj says whether the choice has a delta object, def whether that *)
(* object has a content field) and a finish_reason ("null" for null).      *)
(***************************************************************************)
CHATCMPL == <<"chatcmpl-">>
RESP == <<"resp-">>

\* The time Date.now() returns, as the text of the number.
Clock == "T"

\* s.replace(pat, rep): the first occurrence of pat, if any, is replaced.
Replace(s, pat, rep) ==
    LET at == {i \in 1..(Len(s) - Len(pat) + 1) :
                  SubSeq(s, i, i + Len(pat) - 1) = pat}
    IN IF at = {} THEN s
       ELSE LET i == CHOOSE k \in at : \A j \in at : k <= j
            IN SubSeq(s, 1, i - 1) \o rep \o SubSeq(s, i + Len(pat), Len(s))

NoFinish == [def |-> FALSE, val |-> "null"]

ChunkItemTruthyDelta(choice) ==
    [index |-> choice.index,
     object |-> "response.chunk.delta",
     delta |-> IF choice.delta.obj /\ choice.delta.def
                  /\ choice.delta.content # <<>>
               THEN [def |-> TRUE, content |-> choice.delta.content]
               ELSE NoDelta,
     finish_reason |-> IF choice.finish_reason # "null"
                       THEN [def |-> TRUE, val |-> choice.finish_reason]
                       ELSE NoFinish]

\* The callback of chatChunk.choices.map.
ChunkItem(choice) ==
    [index |-> choice.index,
     object |-> "response.chunk.delta",
     delta |-> IF choice.delta.obj /\ choice.delta.def
               THEN [def |-> TRUE, content |-> choice.delta.content]
               ELSE NoDelta,
     finish_reason |-> IF choice.finish_reason # "null"
                       THEN [def |-> TRUE, val |-> choice.finish_reason]
                       ELSE NoFinish]

\* transformChatChunkToResponsesChunk(chatChunk)
transformChatChunkToResponsesChunk(chunk) ==
    [id |-> Replace(chunk.id, CHATCMPL, RESP),
     object |-> "response.chunk",
     created |-> chunk.created,
     model |-> chunk.model,
     output |-> [i \in 1..Len(chunk.choices) |-> ChunkItem(chunk.choices[i])],
     usage |-> chunk.usage]

ChatChunks ==
    [id : {CHATCMPL \o <<Clock>>, CHATCMPL \o CHATCMPL, <<Clock>>},
     created : {Clock}, model : {DefaultModel},
     choices : UNION {[1..k -> [index : {0, 1},
                                delta : {[obj |-> FALSE, def |-> FALSE, content |-> <<>>],
                                         [obj |-> TRUE, def |-> FALSE, content |-> <<>>],
                                         [obj |-> TRUE, def |-> TRUE, content |-> <<>>],
                                         [obj |-> TRUE, def |-> TRUE, content |-> <<"H", "i">>]},
                                finish_reason : {"null", "stop"}]] :
                         k \in 1..MaxChoices},
     usage : {NoUsage, createUsageObject(MaxPrompt, MaxPrompt + 1)}]

InitChunk ==
    /\ Stage1Idle /\ ParserIdle /\ RespIdle /\ Stage2Idle /\ PairIdle
    /\ chatChunk \in ChatChunks
    /\ responsesChunk = NoChunk
    /\ chunkDone = FALSE

TransformChunk ==
    /\ ~chunkDone
    /\ responsesChunk' = transformChatChunkToResponsesChunk(chatChunk)
    /\ chunkDone' = TRUE
    /\ UNCHANGED <<chatChunk, stage1Vars, parserVars, respVars, stage2Vars,
                   pairVars>>

NextChunk == TransformChunk

SpecChunk == InitChunk /\ [][NextChunk]_vars

(***************************************************************************)
(* handleResponses, the handler of POST /v1/responses, with the chat       *)
(* completion it wraps.  A request is what the handler reads of it:        *)
(* whether it carries a bearer token, whether its body is JSON, the stream *)
(* flag, whether it has instructions, how many input items, and whether    *)
(* validateModel accepts its model.  fetched is what the provider does:    *)
(* the fetch throws, answers with an error status, or answers with a       *)
(* result text; prompt is the value calculatePromptTokens returns.         *)
(***************************************************************************)
\* The responses of src/errors.js.
ErrorResponse(name) ==
    [ok |-> FALSE, kind |-> "error", error |-> name, chat |-> NoChat,
     responses |-> NoResponses]

\* transformResponsesToChat(body)
transformResponsesToChat(body) ==
    [messages |-> (IF body.instructions THEN 1 ELSE 0) + body.input,
     modelValid |-> body.modelValid,
     stream |-> body.stream]

\* transform1MinToOpenAI(oneMinResponse, promptTokens)
transform1MinToOpenAI(text, prompt) ==
    [id |-> CHATCMPL \o <<Clock>>,
     object |-> "chat.completion",
     created |-> Clock,
     model |-> DefaultModel,      \* the model name the provider reports
     choices |-> <<[index |-> 0,
                    message |-> [role |-> "assistant", content |-> text],
                    finish_reason |-> "stop"]>>,
     usage |-> createUsageObject(prompt, calculateCompletionTokens(text))]

\* processChatCompletion(body, apiKey, env)
processChatCompletion(body, answer) ==
    IF body.messages = 0 THEN ErrorResponse("invalid_request")
    ELSE IF ~body.modelValid THEN ErrorResponse("invalid_model")
    ELSE IF answer.outcome # "ok" THEN ErrorResponse("upstream_error")
    ELSE IF body.stream
         THEN [ok |-> TRUE, kind |-> "chat.stream", error |-> "",
               chat |-> NoChat, responses |-> NoResponses]
         ELSE [ok |-> TRUE, kind |-> "chat.completion", error |-> "",
               chat |-> transform1MinToOpenAI(answer.text, answer.prompt),
               responses |-> NoResponses]

\* The callback of chatResponse.choices.map.
ResponseMessage(choice) ==
    [id |-> <<"msg-", Clock>>,
     object |-> "response.message",
     role |-> choice.message.role,
     content |-> choice.message.content,
     finish_reason |-> choice.finish_reason]

\* transformChatToResponses(chatResponse)
transformChatToResponses(chat) ==
    [id |-> Replace(chat.id, CHATCMPL, RESP),
     object |-> "response",
     created |-> chat.created,
     model |-> chat.model,
     status |-> "completed",
     output |-> [i \in 1..Len(chat.choices) |-> ResponseMessage(chat.choices[i])],
     usage |-> chat.usage]

RespondUnchecked(body, response, calls) ==
    IF body.stream
    THEN [result |-> [ok |-> TRUE, kind |-> "response.stream", error |-> "",
                      chat |-> NoChat, responses |-> NoResponses],
          calls |-> [calls EXCEPT !.streaming = @ + 1]]
    ELSE [result |-> [ok |-> TRUE, kind |-> "response", error |-> "",
                      chat |-> NoChat,
                      responses |-> transformChatToResponses(response.chat)],
          calls |-> [calls EXCEPT !.toResponses = @ + 1]]

\* What handleResponses returns once processChatCompletion has resolved.
Respond(body, response, calls) ==
    IF ~response.ok THEN [result |-> response, calls |-> calls]
    ELSE IF body.stream
    THEN [result |-> [ok |-> TRUE, kind |-> "response.stream", error |-> "",
                      chat |-> NoChat, responses |-> NoResponses],
          calls |-> [calls EXCEPT !.streaming = @ + 1]]
    ELSE [result |-> [ok |-> TRUE, kind |-> "response", error |-> "",
                      chat |-> NoChat,
                      responses |-> transformChatToResponses(response.chat)],
          calls |-> [calls EXCEPT !.toResponses = @ + 1]]

InitResponses ==
    /\ Stage1Idle /\ ParserIdle /\ ChunkIdle /\ Stage2Idle /\ PairIdle
    /\ request \in [auth : BOOLEAN, json : BOOLEAN, stream : BOOLEAN,
                    instructions : BOOLEAN, input : {0, 1}, modelValid : BOOLEAN]
    /\ fetched \in [outcome : {"throws", "notok", "ok"},
                    text : {<<>>, <<"H", "i">>}, prompt : {0, MaxPrompt}]
    /\ respPc = "auth"
    /\ chatBody = NoChatBody
    /\ chatResponse = NoResponse
    /\ respResult = NoResponse
    /\ respCalls = NoCalls

\* The Authorization header is checked.
RespAuth ==
    /\ respPc = "auth"
    /\ IF request.auth
       THEN respPc' = "body" /\ UNCHANGED respResult
       ELSE respPc' = "done" /\ respResult' = ErrorResponse("missing_api_key")
    /\ UNCHANGED <<request, fetched, chatBody, chatResponse, respCalls>>
    /\ UNCHANGED besideResponses

\* await request.json(), then transformResponsesToChat.
RespBody ==
    /\ respPc = "body"
    /\ IF request.json
       THEN /\ respPc' = "chat"
            /\ chatBody' = transformResponsesToChat(request)
            /\ UNCHANGED respResult
       ELSE /\ respPc' = "done"
            /\ respResult' = ErrorResponse("invalid_request")
            /\ UNCHANGED chatBody
    /\ UNCHANGED <<request, fetched, chatResponse, respCalls>>
    /\ UNCHANGED besideResponses

\* await processChatCompletion(chatBody, apiKey, env)
RespChat ==
    /\ respPc = "chat"
    /\ chatResponse' = processChatCompletion(chatBody, fetched)
    /\ respPc' = "branch"
    /\ UNCHANGED <<request, fetched, chatBody, respResult, respCalls>>
    /\ UNCHANGED besideResponses

\* The rest of handleResponses.
RespReturn ==
    /\ respPc = "branch"
    /\ \E r \in {Respond(chatBody, chatResponse, respCalls)} :
          /\ respResult' = r.result
          /\ respCalls' = r.calls
    /\ respPc' = "done"
    /\ UNCHANGED <<request, fetched, chatBody, chatResponse>>
    /\ UNCHANGED besideResponses

NextResponses ==
    \/ RespAuth
    \/ RespBody
    \/ RespChat
    \/ RespReturn

SpecResponses == InitResponses /\ [][NextResponses]_vars

(***************************************************************************)
(* The bytes between the two stages.  The first stage enqueues, for each   *)
(* record, the bytes of `data: ${JSON.stringify(object)}\n\n`.  The JSON   *)
(* text is a sequence of units: the text JSON.stringify writes between two *)
(* values of the object is one unit (it is ASCII and has no newline, so    *)
(* where a read cuts it makes no difference to decode, += and split), the  *)
(* text of a number or of null is one unit, 'chatcmpl-' is one unit, and   *)
(* every other character of a string value is a unit of its own, a         *)
(* character outside ASCII being written as its bytes.  The strings of     *)
(* the model hold no character JSON.stringify escapes.                     *)
(***************************************************************************)
AtId == "{\"id\":\""
AtCreated == "\",\"object\":\"chat.completion.chunk\",\"created\":"
AtModel == ",\"model\":\""
AtChoicesFp == "\",\"system_fingerprint\":null,\"choices\":[{\"index\":"
AtChoices == "\",\"choices\":[{\"index\":"
AtDelta == ",\"delta\":{\"content\":\""
AtFinish == "\"},\"logprobs\":null,\"finish_reason\":"
AtDeltaEmpty == ",\"delta\":{},\"logprobs\":null,\"finish_reason\":"
AtEnd == "}]}"
AtUsage == "}],\"usage\":{\"prompt_tokens\":"
AtCompletion == ",\"completion_tokens\":"
AtTotal == ",\"total_tokens\":"
AtUsageEnd == "}}"

Syntax == {AtId, AtCreated, AtModel, AtChoicesFp, AtChoices, AtDelta, AtFinish,
           AtDeltaEmpty, AtEnd, AtUsage, AtCompletion, AtTotal, AtUsageEnd}

\* The members of the object transformStreamChunk returns, and of finalChunk.
DeltaShape == <<AtId, AtCreated, AtModel, AtChoicesFp, AtDelta, AtFinish, AtEnd>>
FinalShape == <<AtId, AtCreated, AtModel, AtChoices, AtDeltaEmpty, AtUsage,
                AtCompletion, AtTotal, AtUsageEnd>>

\* The text of a number, and the number a text is.
NumberTexts == [n \in 0..99 |-> ToString(n)]
NumberText(n) == NumberTexts[n]
IsNumber(u) == \E n \in DOMAIN NumberTexts : NumberTexts[n] = u
NumberOf(u) == CHOOSE n \in DOMAIN NumberTexts : NumberTexts[n] = u

FinishText(f) == IF f = "null" THEN "null" ELSE Q \o f \o Q

\* JSON.stringify(transformed) and JSON.stringify(finalChunk).  A member
\* whose value is undefined (the usage of a delta chunk) is not written.
Stringify(rec) ==
    LET head == <<AtId>> \o CHATCMPL \o <<Clock, AtCreated, Clock, AtModel>>
                    \o rec.model
    IN IF rec.delta.def
       THEN head \o <<AtChoicesFp, NumberText(0), AtDelta>> \o rec.delta.content
                 \o <<AtFinish, FinishText(rec.finish_reason), AtEnd>>
       ELSE head \o <<AtChoices, NumberText(0), AtDeltaEmpty,
                      FinishText(rec.finish_reason), AtUsage,
                      NumberText(rec.usage.prompt_tokens), AtCompletion,
                      NumberText(rec.usage.completion_tokens), AtTotal,
                      NumberText(rec.usage.total_tokens), AtUsageEnd>>

\* encoder.encode(text)
Encode(text) ==
    Flatten([i \in 1..Len(text) |->
                IF text[i] = "U+00E9" THEN <<"xC3", "xA9">> ELSE <<text[i]>>])

\* encoder.encode(`data: ${JSON.stringify(...)}\n\n`), 'data: [DONE]\n\n'
WireOf(rec) ==
    IF rec.object = "[DONE]" THEN Encode(PREFIX \o DONE \o <<NL, NL>>)
    ELSE Encode(PREFIX \o Stringify(rec) \o <<NL, NL>>)

Wire(recs) == Flatten([i \in 1..Len(recs) |-> WireOf(recs[i])])

(***************************************************************************)
(* JSON.parse of a line of the second stage: the text is the JSON of a     *)
(* chat chunk when its syntax units are those of one of the two shapes, in *)
(* order, with values of the right kind between them.                      *)
(***************************************************************************)
JSONparseChunk(s) ==
    LET marks == SelectSeq(Idx(s), LAMBDA i : s[i] \in Syntax)
        m == Len(marks)
        shape == [k \in 1..m |-> s[marks[k]]]
        val(k) == SubSeq(s, marks[k] + 1, marks[k+1] - 1)
        text(k) == \A i \in 1..Len(val(k)) : val(k)[i] \notin {Q, NL}
        number(k) == Len(val(k)) = 1 /\ IsNumber(val(k)[1])
        finish(k) == Len(val(k)) = 1 /\ val(k)[1] \in {"null", FinishText("stop")}
        reason(k) == IF val(k)[1] = "null" THEN "null" ELSE "stop"
        framed == m > 0 /\ marks[1] = 1 /\ marks[m] = Len(s)
        isDelta == /\ framed /\ shape = DeltaShape
                   /\ text(1) /\ Len(val(2)) = 1 /\ text(3) /\ number(4)
                   /\ text(5) /\ finish(6)
        isFinal == /\ framed /\ shape = FinalShape
                   /\ text(1) /\ Len(val(2)) = 1 /\ text(3) /\ number(4)
                   /\ finish(5) /\ number(6) /\ number(7) /\ number(8)
    IN IF isDelta
       THEN [ok |-> TRUE,
             chunk |-> [id |-> val(1), created |-> val(2)[1], model |-> val(3),
                        choices |-> <<[index |-> NumberOf(val(4)[1]),
                                       delta |-> [obj |-> TRUE, def |-> TRUE,
                                                  content |-> val(5)],
                                       finish_reason |-> reason(6)]>>,
                        usage |-> NoUsage]]
       ELSE IF isFinal
       THEN [ok |-> TRUE,
             chunk |-> [id |-> val(1), created |-> val(2)[1], model |-> val(3),
                        choices |-> <<[index |-> NumberOf(val(4)[1]),
                                       delta |-> [obj |-> TRUE, def |-> FALSE,
                                                  content |-> <<>>],
                                       finish_reason |-> reason(5)]>>,
                        usage |-> [def |-> TRUE,
                                   prompt_tokens |-> NumberOf(val(6)[1]),
                                   completion_tokens |-> NumberOf(val(7)[1]),
                                   total_tokens |-> NumberOf(val(8)[1])]]]
       ELSE [ok |-> FALSE, chunk |-> NoChat]

(***************************************************************************)
(* The line loop of the second stage.  st holds the records enqueued by    *)
(* this read and the console.error calls of the inner catch.               *)
(***************************************************************************)
\* 'data: [DONE]\n\n'
Sentinel2 == [NoChunk EXCEPT !.object = "[DONE]"]

HandleLine2ForwardSentinel(st, line, open) ==
    IF ~StartsWith(line, PREFIX) THEN st
    ELSE LET data == Trim(Slice(line, Len(PREFIX)))
         IN IF data = DONE THEN [st EXCEPT !.recs = Append(@, Sentinel2)]
            ELSE IF data = <<>> THEN st
            ELSE LET parsed == JSONparseChunk(data)
                 IN IF parsed.ok /\ open
                    THEN [st EXCEPT !.recs =
                            Append(@, transformChatChunkToResponsesChunk(parsed.chunk))]
                    ELSE [st EXCEPT !.failed = @ + 1]

\* The body of for (const line of lines).
HandleLine2(st, line, open) ==
    IF ~StartsWith(line, PREFIX) THEN st
    ELSE LET data == Trim(Slice(line, Len(PREFIX)))
         IN IF IsIgnored(data) THEN st
            ELSE LET parsed == JSONparseChunk(data)
                 IN IF parsed.ok /\ open
                    THEN [st EXCEPT !.recs =
                            Append(@, transformChatChunkToResponsesChunk(parsed.chunk))]
                    ELSE [st EXCEPT !.failed = @ + 1]

RECURSIVE ProcessLines2(_, _, _)
ProcessLines2(st, lines, open) ==
    IF lines = <<>> THEN st
    ELSE ProcessLines2(HandleLine2(st, Head(lines), open), Tail(lines), open)

\* The records handleChatStreaming enqueues for a body that ends without a
\* fault.
ChatRecords(body, prompt) ==
    LET st == ProcessLines(NewClosure, Front(Split(Decode(body))), TRUE)
    IN st.recs \o DoneRecords(prompt, st.tokens)

\* The chat streams of the model: up to MaxRecords events, with a content
\* outside ASCII or with no content.
ChatOutputs ==
    {ChatRecords(Flatten(f), MaxPrompt) :
        f \in UNION {[1..k -> {RecText, RecNoField}] : k \in 0..MaxRecords}}

CanCloseOrEnqueue2 == state2 = "readable" /\ ~closeRequested2

\* handleResponses has called handleResponsesStreaming(chatResponse).
InitStage2 ==
    /\ Stage1Idle /\ ParserIdle /\ ChunkIdle /\ RespIdle /\ PairIdle
    /\ sent2 \in ChatOutputs
    /\ wire2 = Wire(sent2)
    /\ pos2 = 0 /\ upState2 = "open"
    /\ pc2 = "read" /\ buffer2 = <<>>
    /\ state2 = "readable" /\ closeRequested2 = FALSE
    /\ out2 = <<>> /\ failures2 = 0
    /\ heard2 = <<>> /\ handed2 = <<>> /\ controllerCalls2 = <<>>

OnChunk2NoCarry(chunk) ==
    LET lines == Split(chunk)
    IN [buffer |-> Last(lines),
        lines |-> Front(lines),
        st |-> ProcessLines2([recs |-> <<>>, failed |-> 0], Front(lines),
                             CanCloseOrEnqueue2)]

\* What one read resolution of the second stage computes from the text
\* decoder.decode(value) gave it.
OnChunk2(chunk) ==
    LET lines == Split(buffer2 \o chunk)
    IN [buffer |-> Last(lines),
        lines |-> Front(lines),
        st |-> ProcessLines2([recs |-> <<>>, failed |-> 0], Front(lines),
                             CanCloseOrEnqueue2)]

Read2Chunk(n) ==
    /\ pc2 = "read" /\ upState2 = "open"
    /\ \E chunk \in {Decode(SubSeq(wire2, pos2 + 1, pos2 + n))} :
          /\ heard2' = heard2 \o chunk
          /\ \E r \in {OnChunk2(chunk)} :
                /\ buffer2' = r.buffer
                /\ out2' = out2 \o r.st.recs
                /\ failures2' = failures2 + r.st.failed
                /\ handed2' = handed2 \o r.lines
    /\ pos2' = pos2 + n
    /\ UNCHANGED <<sent2, wire2, upState2, pc2, state2, closeRequested2,
                   controllerCalls2>>
    /\ UNCHANGED besideStage2

\* The reader delivers the bytes in chunks of any size.
Read2 == \E n \in 1..(Len(wire2) - pos2) : Read2Chunk(n)

Read2DoneNoClose ==
    /\ pc2 = "read" /\ upState2 = "open"
    /\ pos2 = Len(wire2)
    /\ upState2' = "ended"
    /\ IF CanCloseOrEnqueue2
       THEN /\ out2' = Append(out2, Sentinel2)
            /\ pc2' = "returned"
            /\ failures2' = failures2
            /\ UNCHANGED <<closeRequested2, controllerCalls2>>
       ELSE /\ pc2' = "rejected"
            /\ failures2' = failures2 + 2
            /\ controllerCalls2' = controllerCalls2 \o <<"error", "close">>
            /\ UNCHANGED <<out2, closeRequested2>>
    /\ UNCHANGED <<sent2, wire2, pos2, buffer2, state2, heard2, handed2>>
    /\ UNCHANGED besideStage2

\* reader.read() resolves with {done: true}.
Read2Done ==
    /\ pc2 = "read" /\ upState2 = "open"
    /\ pos2 = Len(wire2)
    /\ upState2' = "ended"
    /\ IF CanCloseOrEnqueue2
       THEN /\ out2' = Append(out2, Sentinel2)
            /\ closeRequested2' = TRUE
            /\ pc2' = "returned"
            /\ failures2' = failures2
            /\ controllerCalls2' = Append(controllerCalls2, "close")
       ELSE /\ pc2' = "rejected"
            /\ failures2' = failures2 + 2
            /\ controllerCalls2' = controllerCalls2 \o <<"error", "close">>
            /\ UNCHANGED <<out2, closeRequested2>>
    /\ UNCHANGED <<sent2, wire2, pos2, buffer2, state2, heard2, handed2>>
    /\ UNCHANGED besideStage2

\* The bytes of the terminal chunk and the sentinel.
TrailerLength == Len(Wire(DoneRecords(0, 0)))

\* reader.read() rejects: the first stage has put its stream in error
\* state, which it can do until it has enqueued the terminal chunk.  The
\* outer catch calls controller.error; controller.close() then throws.
Read2Fault ==
    /\ pc2 = "read" /\ upState2 = "open"
    /\ pos2 <= Len(wire2) - TrailerLength
    /\ upState2' = "failed"
    /\ state2' = IF state2 = "readable" THEN "errored" ELSE state2
    /\ pc2' = "rejected"
    /\ failures2' = failures2 + 2
    /\ controllerCalls2' = controllerCalls2 \o <<"error", "close">>
    /\ UNCHANGED <<sent2, wire2, pos2, buffer2, closeRequested2, out2, heard2,
                   handed2>>
    /\ UNCHANGED besideStage2

NextStage2 ==
    \/ Read2
    \/ Read2Done
    \/ Read2Fault

SpecStage2 == InitStage2 /\ [][NextStage2]_vars

(***************************************************************************)
(* A request on either endpoint: the first stage on a body whose framing   *)
(* has something to it (a character outside ASCII, an empty line, a last   *)
(* record without its newline), or the second stage on a chat stream.      *)
(***************************************************************************)
FramingBodies ==
    {Flatten(f) :
        f \in UNION {[1..k -> {RecText, RecBlank, RecTail}] : k \in 0..MaxRecords}}

InitFraming ==
    \/ /\ TypeInit /\ upstream \in FramingBodies
       /\ ParserIdle /\ ChunkIdle /\ RespIdle /\ Stage2Idle /\ PairIdle
    \/ InitStage2

NextFraming ==
    \/ Read
    \/ ReadDone
    \/ ReadFault
    \/ Read2
    \/ Read2Done
    \/ Read2Fault

SpecFraming == InitFraming /\ [][NextFraming]_vars

\* What the promise of a pending reader.read() can settle with: more
\* bytes, {done: true} or a rejection.
ReadSettles ==
    /\ pc = "read"
    /\ pos' \in pos..Len(upstream)
    /\ upState' \in {"open", "ended", "failed"}

Read2Settles ==
    /\ pc2 = "read"
    /\ pos2' \in pos2..Len(wire2)
    /\ upState2' \in {"open", "ended", "failed"}

\* Every reader.read() settles, and the await in the loop then resumes.
SpecLive ==
    /\ SpecFraming
    /\ WF_<<pos, upState>>(ReadSettles)
    /\ WF_<<pos2, upState2>>(Read2Settles)

(***************************************************************************)
(* A streaming request to /v1/responses: handleResponses passes the        *)
(* Response of handleChatStreaming to handleResponsesStreaming, whose       *)
(* reader reads the stream the first stage enqueues on, one enqueued chunk  *)
(* per read.  sent2 and wire2 hold what the second stage has read so far.   *)
(***************************************************************************)
InitPipeline ==
    /\ TypeInit
    /\ upstream \in {Flatten(f) :
                       f \in UNION {[1..k -> {RecText, RecNoField}] :
                                       k \in 0..MaxRecords}}
    /\ sent2 = <<>> /\ wire2 = <<>> /\ pos2 = 0 /\ upState2 = "open"
    /\ pc2 = "read" /\ buffer2 = <<>>
    /\ state2 = "readable" /\ closeRequested2 = FALSE
    /\ out2 = <<>> /\ failures2 = 0
    /\ heard2 = <<>> /\ handed2 = <<>> /\ controllerCalls2 = <<>>
    /\ ParserIdle /\ ChunkIdle /\ RespIdle /\ PairIdle

\* The read of the second stage resolves with the chunk at the head of the
\* first stage's queue.
PipeRead ==
    /\ pc2 = "read" /\ upState2 = "open"
    /\ state = "readable" /\ queue # <<>>
    /\ queue' = Tail(queue)
    /\ received' = received + 1
    /\ state' = IF closeRequested /\ queue' = <<>> THEN "closed" ELSE state
    /\ sent2' = Append(sent2, Head(queue))
    /\ wire2' = wire2 \o WireOf(Head(queue))
    /\ pos2' = Len(wire2')
    /\ \E chunk \in {Decode(WireOf(Head(queue)))} :
          /\ heard2' = heard2 \o chunk
          /\ \E r \in {OnChunk2(chunk)} :
                /\ buffer2' = r.buffer
                /\ out2' = out2 \o r.st.recs
                /\ failures2' = failures2 + r.st.failed
                /\ handed2' = handed2 \o r.lines
    /\ UNCHANGED <<upVars, pc, closureVars, framingVars, closeRequested, out,
                   events, failures, cancelled, controllerCalls>>
    /\ UNCHANGED <<upState2, pc2, state2, closeRequested2, controllerCalls2>>
    /\ UNCHANGED <<parserVars, chunkVars, respVars, pairVars>>

\* The first stage has closed its stream and the queue is empty: the read
\* of the second stage resolves with {done: true}.
PipeDone ==
    /\ state = "closed" /\ queue = <<>>
    /\ Read2Done

PipeFaultAsDone ==
    /\ state = "errored"
    /\ Read2Done

\* The first stage has put its stream in error state: the read of the
\* second stage rejects, the outer catch calls controller.error and
\* controller.close() then throws.
PipeFault ==
    /\ state = "errored"
    /\ pc2 = "read" /\ upState2 = "open"
    /\ upState2' = "failed"
    /\ state2' = IF state2 = "readable" THEN "errored" ELSE state2
    /\ pc2' = "rejected"
    /\ failures2' = failures2 + 2
    /\ controllerCalls2' = controllerCalls2 \o <<"error", "close">>
    /\ UNCHANGED <<sent2, wire2, pos2, buffer2, closeRequested2, out2, heard2,
                   handed2>>
    /\ UNCHANGED besideStage2

NextPipeline ==
    \/ Read
    \/ ReadDone
    \/ ReadFault
    \/ PipeRead
    \/ PipeDone
    \/ PipeFault

\* What the promise of a pending read of the second stage can settle with,
\* once the first stage has enqueued a chunk or ended its stream.
PipeSettles ==
    /\ pc2 = "read"
    /\ state # "readable" \/ queue # <<>>
    /\ received' \in {received, received + 1}
    /\ upState2' \in {"open", "ended", "failed"}

SpecPipeline ==
    /\ InitPipeline /\ [][NextPipeline]_vars
    /\ WF_<<pos, upState>>(ReadSettles)
    /\ WF_<<received, upState2>>(PipeSettles)

(***************************************************************************)
(* Two requests to the chat endpoint whose reads interleave.  Every call   *)
(* of handleChatStreaming declares its own reader, totalCompletionTokens,  *)
(* completeResponse and buffer; a request is the record of them, with its  *)
(* body and its output stream.                                             *)
(***************************************************************************)
NewRequest(body, prompt) ==
    [upstream |-> body, pos |-> 0, upState |-> "open", pc |-> "read",
     promptTokens |-> prompt, totalCompletionTokens |-> 0,
     completeResponse |-> <<>>, buffer |-> <<>>,
     state |-> "readable", closeRequested |-> FALSE,
     out |-> <<>>, failures |-> 0]

\* reader.read() of request r resolves with the next n bytes.
ReadStep(r, n) ==
    LET lines == Split(r.buffer \o Decode(SubSeq(r.upstream, r.pos + 1, r.pos + n)))
        st == ProcessLines([NewClosure EXCEPT !.text = r.completeResponse,
                                              !.tokens = r.totalCompletionTokens],
                           Front(lines), r.state = "readable" /\ ~r.closeRequested)
    IN [r EXCEPT !.pos = @ + n,
                 !.buffer = Last(lines),
                 !.completeResponse = st.text,
                 !.totalCompletionTokens = st.tokens,
                 !.out = @ \o st.recs,
                 !.failures = @ + st.failed]

\* reader.read() of request r resolves with {done: true}.
DoneStep(r) ==
    [r EXCEPT !.upState = "ended",
              !.out = @ \o DoneRecords(r.promptTokens, r.totalCompletionTokens),
              !.closeRequested = TRUE,
              !.pc = "returned"]

\* reader.read() of request r rejects.
FaultStep(r) ==
    [r EXCEPT !.upState = "failed",
              !.state = "errored",
              !.pc = "rejected",
              !.failures = @ + 2]

ClosureShared(i) ==
    [pair[i] EXCEPT !.buffer = pair[1].buffer,
                    !.completeResponse = pair[1].completeResponse,
                    !.totalCompletionTokens = pair[1].totalCompletionTokens]

\* The variables the start() of request i works on: those its own call of
\* handleChatStreaming declared.
Closure(i) == pair[i]

InitPair ==
    /\ Stage1Idle /\ ParserIdle /\ ChunkIdle /\ RespIdle /\ Stage2Idle
    \* bodies without a character outside ASCII
    /\ \E b1, b2 \in {RecTail \o RecBlank, RecBlank \o RecNoField} :
          pair = <<NewRequest(b1, 0), NewRequest(b2, MaxPrompt)>>
    /\ last = 0 /\ switches = 0

\* The request whose read has resolved is noted.
Noted(i) ==
    /\ last' = i
    /\ switches' = IF last \notin {0, i} /\ switches < MaxSwitches
                   THEN switches + 1 ELSE switches

PairRead ==
    \E i \in 1..2 : \E n \in 1..(Len(pair[i].upstream) - pair[i].pos) :
        /\ pair[i].pc = "read"
        /\ pair' = [pair EXCEPT ![i] = ReadStep(Closure(i), n)]
        /\ Noted(i)
        /\ UNCHANGED besidePair

PairDone ==
    \E i \in 1..2 :
        /\ pair[i].pc = "read" /\ pair[i].pos = Len(pair[i].upstream)
        /\ pair' = [pair EXCEPT ![i] = DoneStep(Closure(i))]
        /\ Noted(i)
        /\ UNCHANGED besidePair

PairFault ==
    \E i \in 1..2 :
        /\ pair[i].pc = "read"
        /\ pair' = [pair EXCEPT ![i] = FaultStep(Closure(i))]
        /\ Noted(i)
        /\ UNCHANGED besidePair

NextPair ==
    \/ PairRead
    \/ PairDone
    \/ PairFault

SpecPair == InitPair /\ [][NextPair]_vars

(***************************************************************************)
(* Definitions the properties below are stated with.                       *)
(***************************************************************************)
IsSentinel(r) == r.object = "[DONE]"
IsTerminal(r) == r.object = "chat.completion.chunk" /\ r.finish_reason = "stop"
IsDelta(r) == r.object = "chat.completion.chunk" /\ r.finish_reason = "null"

Deltas(recs) == SelectSeq(recs, IsDelta)

Count(recs, P(_)) == Len(SelectSeq(recs, P))

\* The events one read of the whole body decodes.
WholeEvents ==
    ProcessLines([text |-> <<>>, tokens |-> 0, recs |-> <<>>, evs |-> <<>>,
                  failed |-> 0],
                 Front(Split(Decode(upstream))), TRUE).evs

\* A line the event parser decodes.
IsEventLine(line) ==
    /\ StartsWith(line, PREFIX)
    /\ ~IsIgnored(Trim(Slice(line, Len(PREFIX))))
    /\ JSONparse(Trim(Slice(line, Len(PREFIX)))).ok

Contents(evs) == [i \in 1..Len(evs) |-> evs[i].content]

(***************************************************************************)
(* C1: framing invariance.  When the body has been read to its end, the    *)
(* events decoded are those one read of the whole body decodes, however    *)
(* the body was split into reads.                                          *)
(***************************************************************************)
C1_FramingInvariance ==
    upState = "ended" => Contents(events) = Contents(WholeEvents)

(***************************************************************************)
(* C2: sentinel uniqueness.  A sentinel is only ever the last record       *)
(* enqueued, and once the upstream has ended without a fault the last      *)
(* record is the sentinel: exactly one, whatever the upstream sent.        *)
(***************************************************************************)
C2_SentinelUnique ==
    /\ \A i \in 1..Len(out) : IsSentinel(out[i]) => i = Len(out)
    /\ upState = "ended" => (out # <<>> /\ IsSentinel(out[Len(out)]))
    /\ upState # "ended" => Count(out, IsSentinel) = 0

C2_Witness ==
    /\ upState = "ended"
    /\ upstream = RecSentinel \o RecSentinel
    /\ Count(out, IsSentinel) = 1

(***************************************************************************)
(* C3: the terminal chunk.  At end of input the last two records are the   *)
(* terminal chunk (no delta content, finish_reason stop, usage of the      *)
(* prompt count, the accumulator and their sum) and the sentinel; no       *)
(* other record has finish_reason stop or a usage, before or after.        *)
(***************************************************************************)
C3_TerminalChunk ==
    LET n == Len(out)
        body == IF upState = "ended" THEN n - 2 ELSE n
    IN /\ \A i \in 1..body : ~IsTerminal(out[i]) /\ ~out[i].usage.def
                             /\ ~IsSentinel(out[i])
       /\ upState = "ended" =>
            /\ n >= 2
            /\ IsSentinel(out[n])
            /\ IsTerminal(out[n-1])
            /\ out[n-1].delta.def = FALSE
            /\ out[n-1].usage.def
            /\ out[n-1].usage.prompt_tokens = promptTokens
            /\ out[n-1].usage.completion_tokens = totalCompletionTokens
            /\ out[n-1].usage.total_tokens = promptTokens + totalCompletionTokens

C3_Witness ==
    /\ upState = "ended" /\ Len(out) >= 3
    /\ promptTokens > 0 /\ totalCompletionTokens > promptTokens

(***************************************************************************)
(* C4: one chunk per event, in order.  In every state, so also whenever    *)
(* the next read is awaited, the delta chunks enqueued so far are one per  *)
(* event decoded so far, in the same order, each with the event's content  *)
(* as delta.content and finish_reason null.                                *)
(***************************************************************************)
C4_OneChunkPerEvent ==
    LET ds == Deltas(out)
    IN /\ Len(ds) = Len(events)
       /\ \A i \in 1..Len(ds) :
            /\ ds[i].delta = [def |-> TRUE, content |-> events[i].content]
            /\ ds[i].finish_reason = "null"
       /\ \A i \in 1..Len(events) : IsDelta(out[i])

C4_Witness ==
    /\ pc = "read" /\ upState = "open"
    /\ Len(events) = 2
    /\ events[1].content = <<>> /\ events[2].content # <<>>
    /\ Len(Deltas(out)) = 2

(***************************************************************************)
(* C5: a malformed record is not fatal.  A record that fails to decode     *)
(* leaves no record in the output and nothing in the accumulators, the     *)
(* stream is in error state only after a read fault, and at end of input   *)
(* every record of the body that decodes has its chunk, followed by the    *)
(* terminal chunk and the sentinel.                                        *)
(***************************************************************************)
C5_MalformedNotFatal ==
    /\ Len(Deltas(out)) = Len(events)
    /\ completeResponse = Flatten(Contents(events))
    /\ totalCompletionTokens =
         (IF events = <<>> THEN 0 ELSE events[Len(events)].tokens)
    /\ state = "errored" => upState = "failed"
    /\ upState = "ended" =>
         /\ Len(Deltas(out)) = Len(WholeEvents)
         /\ Len(out) = Len(WholeEvents) + 2
         /\ IsTerminal(out[Len(out) - 1]) /\ IsSentinel(out[Len(out)])

C5_Witness ==
    /\ upState = "ended" /\ state = "readable"
    /\ upstream = RecMalformed \o RecResponse
    /\ failures = 1 /\ Len(Deltas(out)) = 1

(***************************************************************************)
(* C6: the leftover at end of input.  When the upstream ends while the     *)
(* buffer holds a record that decodes, that record has been decoded too:   *)
(* there is one event more than the newline-terminated records give.       *)
(***************************************************************************)
C6_LeftoverParsed ==
    (upState = "ended" /\ IsEventLine(buffer)) =>
        Len(events) = Len(WholeEvents) + 1

(***************************************************************************)
(* C7: token monotonicity.  The estimate after an event is never below the *)
(* estimate after an earlier event, and the completion count of the        *)
(* terminal chunk is at least every one of them.                           *)
(***************************************************************************)
C7_TokenMonotone ==
    /\ \A i, j \in 1..Len(events) : i <= j => events[i].tokens <= events[j].tokens
    /\ \A i \in 1..Len(events) : events[i].tokens <= totalCompletionTokens
    /\ upState = "ended" =>
         \A i \in 1..Len(events) :
            events[i].tokens <= out[Len(out) - 1].usage.completion_tokens

C7_Witness ==
    /\ upState = "ended" /\ Len(events) = 2
    /\ events[1].tokens < events[2].tokens
    /\ out[Len(out) - 1].usage.completion_tokens = events[2].tokens

(***************************************************************************)
(* C8: backpressure.  A read of the upstream is awaited only while no      *)
(* record enqueued earlier is still waiting for the consumer.              *)
(***************************************************************************)
C8_Backpressure ==
    (pc = "read" /\ upState = "open") => queue = <<>>

(***************************************************************************)
(* C9: consumer abort.  Once the consumer has cancelled, the upstream      *)
(* reader is cancelled: no read of the pipeline gets another chunk of the  *)
(* body.                                                                   *)
(***************************************************************************)
C9_AbortStopsReading ==
    [][cancelled => pos' = pos]_vars

(***************************************************************************)
(* C10: upstream read fault.  After a read has failed the output stream is *)
(* in error state, neither the terminal chunk nor the sentinel has been    *)
(* enqueued, and no read is awaited any more.                              *)
(***************************************************************************)
C10_ReadFaultFatal ==
    upState = "failed" =>
        /\ state = "errored"
        /\ pc = "rejected"
        /\ \A i \in 1..Len(out) : ~IsTerminal(out[i]) /\ ~IsSentinel(out[i])
        /\ ~closeRequested

C10_Witness ==
    /\ upState = "failed" /\ state = "errored"
    /\ Len(out) >= 1 /\ pos < Len(upstream)

(***************************************************************************)
(* C15: the token accumulator.  After every event the accumulated text is  *)
(* the contents of the events decoded so far, in order (which is the       *)
(* delta.content of the chunks enqueued so far), and the estimate is the   *)
(* estimator's value for the whole accumulated text; an event with empty   *)
(* content leaves the estimate where it was.                               *)
(***************************************************************************)
C15_TokenAccumulator ==
    LET cs == Contents(events)
        ds == Deltas(out)
        before(i) == IF i = 1 THEN 0 ELSE events[i-1].tokens
    IN /\ completeResponse = Flatten(cs)
       /\ completeResponse = Flatten([i \in 1..Len(ds) |-> ds[i].delta.content])
       /\ totalCompletionTokens = calculateCompletionTokens(completeResponse)
       /\ \A i \in 1..Len(events) :
            /\ events[i].tokens =
                 calculateCompletionTokens(Flatten(SubSeq(cs, 1, i)))
            /\ events[i].content = <<>> => events[i].tokens = before(i)

C15_Witness ==
    /\ pc = "read" /\ Len(events) = 2
    /\ Len(events[1].content) = 5 /\ events[2].content = <<>>
    /\ totalCompletionTokens = 2 /\ Len(completeResponse) = 5

\* The bodies that hold no record the event parser decodes.
SilentBodies ==
    {Flatten(f) :
        f \in UNION {[1..k -> {RecBlank, RecSentinel, RecMalformed}] :
                        k \in 0..MaxRecords}}

(***************************************************************************)
(* C16: the empty upstream.  When the body is empty, or holds only blank,  *)
(* sentinel and malformed records, the output at end of input is exactly   *)
(* two records: the terminal chunk, whose completion count is the          *)
(* estimator's value for the empty text, and the sentinel.                 *)
(***************************************************************************)
C16_EmptyUpstream ==
    (upState = "ended" /\ upstream \in SilentBodies) =>
        /\ Len(out) = 2
        /\ IsTerminal(out[1]) /\ ~out[1].delta.def
        /\ out[1].usage.def
        /\ out[1].usage.completion_tokens = calculateCompletionTokens(<<>>)
        /\ out[1].usage.prompt_tokens = promptTokens
        /\ IsSentinel(out[2])

C16_Witness ==
    /\ upState = "ended" /\ upstream = RecMalformed \o RecSentinel
    /\ Len(out) = 2 /\ failures = 1

\* The payload of a line the event parser decodes, and those lines.
PayloadOf(line) == JSONparse(Trim(Slice(line, Len(PREFIX)))).obj
EventLines(lines) == SelectSeq(lines, IsEventLine)

\* The value of the first of 'response', 'text' that the payload has.
FirstPresent(obj) ==
    LET r == Field(obj, KeyResponse)
        t == Field(obj, KeyText)
    IN IF r.def THEN r.val ELSE IF t.def THEN t.val ELSE <<>>

\* The value of the first of them that the payload has with a non-empty
\* value.
FirstNonEmpty(obj) ==
    LET r == Field(obj, KeyResponse)
        t == Field(obj, KeyText)
    IN IF r.def /\ r.val # <<>> THEN r.val
       ELSE IF t.def /\ t.val # <<>> THEN t.val ELSE <<>>

\* The events of the loop have the contents pick(payload), and the same
\* value is the delta.content of the chunk and what is accumulated.
ContentsAre(pick(_)) ==
    LET ls == EventLines(parserLines)
        evs == parserAfter.evs
        recs == parserAfter.recs
    IN /\ Len(evs) = Len(ls)
       /\ \A i \in 1..Len(ls) : evs[i].content = pick(PayloadOf(ls[i]))
       /\ parserOpen =>
            /\ Len(recs) = Len(ls)
            /\ \A i \in 1..Len(ls) :
                 recs[i].delta = [def |-> TRUE, content |-> pick(PayloadOf(ls[i]))]
       /\ parserAfter.text =
            parserBefore.text \o Flatten([i \in 1..Len(ls) |-> pick(PayloadOf(ls[i]))])

(***************************************************************************)
(* C17: content normalization, as claimed.  The content of an event is the *)
(* value of the first of 'response', then 'text', that is present in the   *)
(* payload, the empty string when neither is; the same value is the        *)
(* delta.content of the chunk and what is accumulated.                     *)
(***************************************************************************)
C17_FirstPresent == parserDone => ContentsAre(FirstPresent)

(***************************************************************************)
(* C17, amended: the content is the value of the first of 'response', then *)
(* 'text', that is present with a non-empty value, the empty string when   *)
(* neither is; the same value is the delta.content and what is accumulated.*)
(***************************************************************************)
C17_FirstNonEmpty == parserDone => ContentsAre(FirstNonEmpty)

C17_Witness ==
    /\ parserDone /\ parserOpen
    /\ parserLines = <<LineEmptyResponseAndText>>
    /\ parserAfter.recs[1].delta.content = <<"Z">>
    /\ parserAfter.text = parserBefore.text \o <<"Z">>

\* A line the event parser filters out: no prefix, or a payload that is
\* empty or the sentinel once the prefix is stripped and the rest trimmed.
Filtered(line) ==
    \/ ~StartsWith(line, PREFIX)
    \/ Trim(Slice(line, Len(PREFIX))) = <<>>
    \/ Trim(Slice(line, Len(PREFIX))) = DONE

(***************************************************************************)
(* C19: event-parser filtering.  The lines that are filtered out have no   *)
(* effect: the loop leaves the closure state and the output as it would    *)
(* without them, unchanged when every line is filtered out; a sentinel     *)
(* among the lines does not end the loop, and every record that decodes,   *)
(* before or after it, has its chunk.                                      *)
(***************************************************************************)
C19_ParserFiltering ==
    parserDone =>
        LET kept == SelectSeq(parserLines, LAMBDA l : ~Filtered(l))
            good == SelectSeq(kept, LAMBDA l : JSONparse(Trim(Slice(l, Len(PREFIX)))).ok)
        IN /\ parserAfter = ProcessLines(parserBefore, kept, parserOpen)
           /\ kept = <<>> => parserAfter = parserBefore
           /\ Len(parserAfter.evs) = Len(good)
           /\ Len(parserAfter.recs) = (IF parserOpen THEN Len(good) ELSE 0)
           /\ parserAfter.failed =
                (Len(kept) - Len(good)) + (IF parserOpen THEN 0 ELSE Len(good))

C19_Witness ==
    /\ parserDone /\ parserOpen
    /\ parserLines = <<LinePaddedSentinel, LineText>>
    /\ Len(parserAfter.recs) = 1
    /\ parserAfter.recs[1].delta.content = <<"Z">>

(***************************************************************************)
(* C13: the chunk transformation.  The object returned has object          *)
(* 'response.chunk', the id of the chat chunk with its 'chatcmpl-' prefix  *)
(* replaced by 'resp-', and one output entry per choice with the choice's  *)
(* index; an entry has a delta exactly when the choice's delta has a       *)
(* content field (the empty string included), and a finish_reason exactly  *)
(* when the choice's is set; created, model and usage are the chat         *)
(* chunk's.                                                                *)
(***************************************************************************)
C13_ChunkTransform ==
    chunkDone =>
        LET cs == chatChunk.choices
            os == responsesChunk.output
        IN /\ responsesChunk.object = "response.chunk"
           /\ StartsWith(chatChunk.id, CHATCMPL) =>
                responsesChunk.id = RESP \o Tail(chatChunk.id)
           /\ Len(os) = Len(cs)
           /\ \A i \in 1..Len(cs) :
                /\ os[i].index = cs[i].index
                /\ os[i].delta.def <=> (cs[i].delta.obj /\ cs[i].delta.def)
                /\ os[i].delta.def => os[i].delta.content = cs[i].delta.content
                /\ os[i].finish_reason.def <=> cs[i].finish_reason # "null"
                /\ os[i].finish_reason.def =>
                     os[i].finish_reason.val = cs[i].finish_reason
           /\ responsesChunk.created = chatChunk.created
           /\ responsesChunk.model = chatChunk.model
           /\ responsesChunk.usage = chatChunk.usage

C13_Witness ==
    /\ chunkDone /\ Len(chatChunk.choices) = 2
    /\ chatChunk.id = CHATCMPL \o CHATCMPL
    /\ responsesChunk.id = RESP \o CHATCMPL
    /\ chatChunk.choices[1].delta = [obj |-> TRUE, def |-> TRUE, content |-> <<>>]
    /\ responsesChunk.output[1].delta = [def |-> TRUE, content |-> <<>>]
    /\ chatChunk.choices[2].delta = [obj |-> TRUE, def |-> FALSE, content |-> <<>>]
    /\ chatChunk.choices[2].finish_reason = "stop"
    /\ ~responsesChunk.output[2].delta.def
    /\ responsesChunk.output[2].finish_reason = [def |-> TRUE, val |-> "stop"]
    /\ responsesChunk.usage.def

(***************************************************************************)
(* C14: the non-streaming /v1/responses.  A successful non-streaming       *)
(* request returns a body with object 'response', an id that starts with   *)
(* 'resp-' and an output of one entry per choice of the chat completion    *)
(* (so not empty), each with the choice's role, content and finish_reason. *)
(* When the chat completion's response is not ok, handleResponses returns  *)
(* that response as it is and calls neither transformChatToResponses nor   *)
(* handleResponsesStreaming.                                               *)
(***************************************************************************)
C14_ResponsesBody ==
    respPc = "done" =>
        LET body == respResult.responses
            cs == chatResponse.chat.choices
        IN /\ (chatResponse.ok /\ ~chatBody.stream) =>
                /\ respResult.ok /\ respResult.kind = "response"
                /\ body.object = "response"
                /\ StartsWith(body.id, RESP)
                /\ Len(body.output) = Len(cs) /\ Len(body.output) >= 1
                /\ \A i \in 1..Len(cs) :
                     /\ body.output[i].role = cs[i].message.role
                     /\ body.output[i].content = cs[i].message.content
                     /\ body.output[i].finish_reason = cs[i].finish_reason
                /\ respCalls = [toResponses |-> 1, streaming |-> 0]
           /\ (chatResponse.kind # "none" /\ ~chatResponse.ok) =>
                /\ respResult = chatResponse
                /\ respCalls = NoCalls

C14_Witness ==
    /\ respPc = "done" /\ respResult.kind = "response"
    /\ respResult.responses.id = RESP \o <<Clock>>
    /\ respResult.responses.output[1].content = <<"H", "i">>
    /\ respResult.responses.output[1].role = "assistant"

\* The records of the second stage.
IsSentinel2(r) == r.object = "[DONE]"
IsChunk2(r) == r.object = "response.chunk"

\* The chat chunks among the records of the first stage.
ChatChunksSent == SelectSeq(sent2, LAMBDA r : ~IsSentinel(r))

\* The second stage has gone over a sentinel line of its input.
SentinelHanded == \E i \in 1..Len(handed2) : handed2[i] = PREFIX \o DONE

(***************************************************************************)
(* C11: the sentinel in the second stage.  A sentinel read from the first  *)
(* stage's stream is not forwarded and does not end the processing: the    *)
(* stage goes on reading until the byte stream ends.  When it ends, the    *)
(* stage emits one sentinel as its last record, so its output holds        *)
(* exactly one sentinel; before that it holds none.                        *)
(***************************************************************************)
C11_Stage2Sentinel ==
    /\ \A i \in 1..Len(out2) : IsSentinel2(out2[i]) => i = Len(out2)
    /\ upState2 = "ended" =>
         /\ out2 # <<>> /\ IsSentinel2(out2[Len(out2)])
         /\ Count(out2, IsSentinel2) = 1
         /\ SentinelHanded
    /\ upState2 # "ended" => Count(out2, IsSentinel2) = 0
    /\ (SentinelHanded /\ upState2 = "open") => pc2 = "read"

C11_Witness ==
    /\ upState2 = "open" /\ pc2 = "read" /\ SentinelHanded
    /\ pos2 < Len(wire2)
    /\ Len(out2) = 3 /\ Count(out2, IsSentinel2) = 0

\* rc is the response chunk of the chat chunk cc of the first stage, the
\* text of its delta set aside.
ResponseChunkOf(rc, cc) ==
    /\ IsChunk2(rc)
    /\ rc.id = RESP \o <<Clock>>
    /\ rc.model = cc.model
    /\ rc.usage = cc.usage
    /\ Len(rc.output) = 1
    /\ rc.output[1].index = 0
    /\ rc.output[1].delta.def = cc.delta.def
    /\ rc.output[1].finish_reason.def = (cc.finish_reason = "stop")

\* No read of the second stage has cut a character in two.
WholeCharacters2 == heard2 = Decode(SubSeq(wire2, 1, pos2))

(***************************************************************************)
(* C12: the two stages composed.  However the bytes of the first stage are *)
(* cut into reads, the second stage emits one response chunk per chat      *)
(* chunk of the first stage, the terminal chunk included, in the same      *)
(* order; once the bytes have ended it has emitted one for every chat      *)
(* chunk, followed by exactly one sentinel.  The delta of a response chunk *)
(* has the text of its chat chunk when no read has cut a character.        *)
(***************************************************************************)
C12_StageComposition ==
    LET chunks == ChatChunksSent
        mine == SelectSeq(out2, IsChunk2)
    IN /\ Len(mine) <= Len(chunks)
       /\ \A i \in 1..Len(mine) :
            /\ out2[i] = mine[i]
            /\ ResponseChunkOf(mine[i], chunks[i])
            /\ WholeCharacters2 =>
                 mine[i].output[1].delta.content = chunks[i].delta.content
       /\ upState2 # "failed" => failures2 = 0
       /\ upState2 = "ended" =>
            /\ Len(mine) = Len(chunks)
            /\ Len(out2) = Len(chunks) + 1
            /\ IsSentinel2(out2[Len(out2)])

C12_Witness ==
    /\ upState2 = "ended" /\ Len(ChatChunksSent) = 3 /\ Len(out2) = 4
    /\ ~WholeCharacters2
    /\ out2[1].output[1].delta.content = <<Replacement, Replacement>>
    /\ out2[2].output[1].delta = [def |-> TRUE, content |-> <<>>]
    /\ out2[3].output[1].finish_reason = [def |-> TRUE, val |-> "stop"]

\* buf and lines are the leftover and the complete lines of the text.
Framed(buf, text, lines) ==
    /\ \A i \in 1..Len(buf) : buf[i] # NL
    /\ buf = Last(Split(text))
    /\ lines = Front(Split(text))

(***************************************************************************)
(* C18: the leftover buffer, in both stages.  After every read the buffer  *)
(* holds no newline and is the text received after the last newline, and   *)
(* the lines handed to the line loop so far are the newline-terminated     *)
(* segments of the text received so far, each one once and in order.       *)
(***************************************************************************)
C18_LeftoverBuffer ==
    /\ Framed(buffer, heard, handed)
    /\ Framed(buffer2, heard2, handed2)

C18_Witness ==
    /\ pc = "read" /\ upstream = RecText \o RecTail
    /\ Len(handed) = 1 /\ handed[1] # Front(Split(Decode(upstream)))[1]
    /\ buffer # <<>> /\ buffer # Last(Split(Decode(upstream)))

\* What request r has come to if it ran alone: its body read up to where r
\* has read it, and ended or failed there if r has.
Alone(r) ==
    LET fresh == NewRequest(r.upstream, r.promptTokens)
        read == IF r.pos = 0 THEN fresh ELSE ReadStep(fresh, r.pos)
    IN IF r.upState = "ended" THEN DoneStep(read)
       ELSE IF r.upState = "failed" THEN FaultStep(read)
       ELSE read

(***************************************************************************)
(* C20: per-request isolation.  With two requests in flight and their      *)
(* reads interleaved in any way, the output, the leftover buffer, the      *)
(* accumulated text and the usage of each request are what they are when   *)
(* the request runs alone on its body, and a step of one request leaves    *)
(* everything of the other as it was.                                      *)
(***************************************************************************)
C20_Isolation ==
    /\ [](\A i \in 1..2 :
            /\ pair[i].out = Alone(pair[i]).out
            /\ pair[i].buffer = Alone(pair[i]).buffer
            /\ pair[i].completeResponse = Alone(pair[i]).completeResponse
            /\ pair[i].totalCompletionTokens = Alone(pair[i]).totalCompletionTokens
            /\ pair[i] = Alone(pair[i]))
    /\ [][\A i \in 1..2 : last' = i => pair'[3 - i] = pair[3 - i]]_vars

C20_Witness ==
    /\ switches = MaxSwitches
    /\ pair[1].upState = "ended" /\ pair[2].upState = "ended"
    /\ pair[1].upstream = pair[2].upstream
    /\ Len(pair[1].out) = 3 /\ Len(pair[2].out) = 3
    /\ pair[1].out[2].usage.prompt_tokens = 0
    /\ pair[2].out[2].usage.prompt_tokens = MaxPrompt

(***************************************************************************)
(* C22: the lifecycle of the output stream.  In both stages the calls on   *)
(* the controller are enqueues followed by exactly one of close or error:  *)
(* close is called at most once and never on a stream that error has been  *)
(* called on, and once close or error has been called the loop has been    *)
(* left, so that no enqueue is attempted any more.                         *)
(***************************************************************************)
C22_Lifecycle ==
    /\ controllerCalls \in {<<>>, <<"close">>, <<"error">>}
    /\ controllerCalls2 \in {<<>>, <<"close">>, <<"error">>}
    /\ controllerCalls # <<>> => pc # "read"
    /\ controllerCalls2 # <<>> => pc2 # "read"

\* The output stream of a stage is in a final state: close has been called
\* on it and accepted (the consumer finds it closed once it has read what
\* is queued), or it is in error state.
Final == closeRequested \/ state = "errored"
Final2 == closeRequested2 \/ state2 = "errored"

(***************************************************************************)
(* C21: termination.  When every read of the upstream settles and the      *)
(* upstream ends or fails, the output stream of each stage eventually is   *)
(* in a final state and start() has left its loop; the stream is never     *)
(* both closed and in error state; it is closed only after the sentinel;   *)
(* and once it is in a final state no record is enqueued.                  *)
(***************************************************************************)
C21_Termination ==
    /\ (pc = "read") ~> (pc # "read" /\ Final)
    /\ (pc2 = "read") ~> (pc2 # "read" /\ Final2)
    /\ [](~(closeRequested /\ state = "errored"))
    /\ [](~(closeRequested2 /\ state2 = "errored"))
    /\ [](closeRequested => out # <<>> /\ IsSentinel(Last(out)))
    /\ [](closeRequested2 => out2 # <<>> /\ IsSentinel2(Last(out2)))
    /\ [][Final => out' = out]_vars
    /\ [][Final2 => out2' = out2]_vars

C21_Witness ==
    /\ pc = "returned" /\ upState = "ended"
    /\ controllerCalls = <<"close">>
    /\ Final /\ state # "errored"
    /\ Len(out) = MaxRecords + 2

(***************************************************************************)
(* C23: a fault of the provider in a streaming /v1/responses request.      *)
(* When the read of the provider body fails, the read of the second stage  *)
(* fails in its turn and the stream of the endpoint ends in error state;   *)
(* the second stage has not ended normally, it has emitted no sentinel,    *)
(* and its records are response chunks of delta chunks of the first stage, *)
(* in order: none for a terminal chunk, which the first stage never made.  *)
(***************************************************************************)
C23_FaultPropagation ==
    /\ [](upState = "failed" =>
            /\ upState2 # "ended" /\ ~closeRequested2
            /\ Len(out2) <= Len(out)
            /\ \A i \in 1..Len(out2) :
                 /\ ~IsSentinel2(out2[i])
                 /\ IsDelta(out[i])
                 /\ ResponseChunkOf(out2[i], out[i])
                 /\ ~out2[i].output[1].finish_reason.def)
    /\ []((upState = "failed" /\ pc2 # "read") =>
            /\ upState2 = "failed" /\ state2 = "errored"
            /\ pc2 = "rejected")
    /\ (upState = "failed") ~> (upState2 = "failed" /\ state2 = "errored")

C23_Witness ==
    /\ upState = "failed" /\ upState2 = "failed"
    /\ state2 = "errored"
    /\ Len(out2) = 1 /\ Len(out) = 2
====
